---- MODULE Spec2Model ----
(***************************************************************************)
(* Roll inventory service (src/main.py): one table of rolls, the CRUDRoll  *)
(* repository and the five FastAPI endpoint handlers.                      *)
(*                                                                         *)
(* Spec      : requests served concurrently (FastAPI runs "def" handlers   *)
(*             in a thread pool); every repository call is a sequence of   *)
(*             steps, one per database statement.                          *)
(* SpecSeq   : the same steps, one request at a time.                      *)
(* SpecList  : get_rolls applied to every table within the bounds.         *)
(* SpecStats : get_stats applied to every table within the bounds.         *)
(***************************************************************************)
EXTENDS Integers, Sequences, FiniteSets, TLC

VARIABLES
    store,      \* the "rolls" table: a sequence of rows, row i has id i
    clock,      \* what datetime.now() returns; it never goes backwards
    pc,         \* pc[p]: where request p stands
    op,         \* op[p]: the endpoint request p called
    arg,        \* arg[p]: the request's parameters
    obj,        \* obj[p]: the ORM instance the repository call holds
    exc,        \* exc[p]: the exception raised while serving p, or NoExc
    status,     \* status[p]: the HTTP status p is answered with (0: none yet)
    open,       \* open[p]: sessions request p has opened and not closed
    out         \* SpecList, SpecStats: the query applied and what it returned

vars == <<store, clock, pc, op, arg, obj, exc, status, open, out>>

----------------------------------------------------------------------------
(* Bounds *)

MaxRolls == 2
MaxClock == 1

Procs == {"r1", "r2"}
Lengths == {1, 2}
Weights == {1, 2}
Times == 0..MaxClock
Ids == 1..MaxRolls

\* the request bodies POST /rolls/ is called with
RollInputs == {[length |-> 1, weight |-> 2]}

----------------------------------------------------------------------------
(* Data model *)

\* SQL NULL / Python None in a nullable column or an Optional parameter.
NULL == -1

NoExc == "None"
NotFound == "NotFound"             \* HTTPException(status_code=404)
AlreadyRemoved == "AlreadyRemoved" \* HTTPException(status_code=400)
StoreError == "StoreError"         \* any exception raised by the database layer
DetachedInstance == "DetachedInstanceError"

Roll(i, l, w, a, r) ==
    [id |-> i, length |-> l, weight |-> w, date_added |-> a, date_removed |-> r]

NoRow == Roll(0, 0, 0, NULL, NULL)

\* An ORM instance: the row it stands for and whether its attributes are
\* loaded.  Session.commit() expires every instance of the session
\* (sessionmaker's expire_on_commit default); Session.refresh() and a query
\* load them; an expired instance of a closed session cannot be read.
Instance(r, l) == [roll |-> r, loaded |-> l]

NoObj == Instance(NoRow, FALSE)

NoArg == [id |-> 0, length |-> 0, weight |-> 0]

----------------------------------------------------------------------------
(* SQL predicates and aggregates, as the queries of CRUDRoll use them *)

\* SqlGE with the bound excluded (> for >=)
SqlGT(col, v) == col # NULL /\ col > v

\* column >= value and column <= value: a NULL column compares as unknown,
\* and a row whose WHERE clause is unknown is not selected.
SqlGE(col, v) == col # NULL /\ col >= v

SqlLE(col, v) == col # NULL /\ col <= v

\* Between as BETWEEN SYMMETRIC: the two ends in either order
BetweenSymmetric(col, lo, hi) ==
    col # NULL /\ ((lo <= col /\ col <= hi) \/ (hi <= col /\ col <= lo))

\* column BETWEEN lo AND hi
Between(col, lo, hi) == SqlGE(col, lo) /\ SqlLE(col, hi)

\* "if bound is not None: query = query.filter(column >= bound)", and the
\* like for each of the eight bounds
FilterLengthMin(q, v) ==
    IF v # NULL THEN LET Keep(r) == SqlGE(r.length, v) IN SelectSeq(q, Keep) ELSE q

FilterLengthMax(q, v) ==
    IF v # NULL THEN LET Keep(r) == SqlLE(r.length, v) IN SelectSeq(q, Keep) ELSE q

FilterWeightMin(q, v) ==
    IF v # NULL THEN LET Keep(r) == SqlGE(r.weight, v) IN SelectSeq(q, Keep) ELSE q

FilterWeightMax(q, v) ==
    IF v # NULL THEN LET Keep(r) == SqlLE(r.weight, v) IN SelectSeq(q, Keep) ELSE q

FilterAddedMin(q, v) ==
    IF v # NULL THEN LET Keep(r) == SqlGE(r.date_added, v) IN SelectSeq(q, Keep) ELSE q

FilterAddedMax(q, v) ==
    IF v # NULL THEN LET Keep(r) == SqlLE(r.date_added, v) IN SelectSeq(q, Keep) ELSE q

FilterRemovedMin(q, v) ==
    IF v # NULL THEN LET Keep(r) == SqlGE(r.date_removed, v) IN SelectSeq(q, Keep) ELSE q

FilterRemovedMax(q, v) ==
    IF v # NULL THEN LET Keep(r) == SqlLE(r.date_removed, v) IN SelectSeq(q, Keep) ELSE q

NoFilter ==
    [length_min |-> NULL, length_max |-> NULL,
     weight_min |-> NULL, weight_max |-> NULL,
     date_added_min |-> NULL, date_added_max |-> NULL,
     date_removed_min |-> NULL, date_removed_max |-> NULL]

\* CRUDRoll.get_rolls: the rows of table s that pass every filter applied,
\* in primary-key order.
get_rolls(s, f) ==
    LET q0 == s
        q1 == FilterLengthMin(q0, f.length_min)
        q2 == FilterLengthMax(q1, f.length_max)
        q3 == FilterWeightMin(q2, f.weight_min)
        q4 == FilterWeightMax(q3, f.weight_max)
        q5 == FilterAddedMin(q4, f.date_added_min)
        q6 == FilterAddedMax(q5, f.date_added_max)
        q7 == FilterRemovedMin(q6, f.date_removed_min)
        q8 == FilterRemovedMax(q7, f.date_removed_max)
    IN  q8

RECURSIVE SumSeq(_)
\* sum(x for x in xs)
SumSeq(xs) == IF xs = <<>> THEN 0 ELSE Head(xs) + SumSeq(Tail(xs))

\* min(xs), max(xs) of a non-empty sequence
MinSeq(xs) == CHOOSE m \in {xs[i] : i \in DOMAIN xs} : \A i \in DOMAIN xs : m <= xs[i]
MaxSeq(xs) == CHOOSE m \in {xs[i] : i \in DOMAIN xs} : \A i \in DOMAIN xs : m >= xs[i]

RECURSIVE GCD(_, _)
GCD(a, b) == IF b = 0 THEN a ELSE GCD(b, a % b)

\* The quotient n / d of two numbers (a float in the program), kept exact as
\* a fraction in lowest terms; the number k is Quot(k, 1).
Quot(n, d) == LET g == GCD(n, d) IN [num |-> n \div g, den |-> d \div g]

LengthsOf(rs) == [i \in DOMAIN rs |-> rs[i].length]
WeightsOf(rs) == [i \in DOMAIN rs |-> rs[i].weight]

SecondsPerHour == 3600

\* (date_removed - date_added).total_seconds() / 3600; timestamps count hours
GapHours(r) == ((r.date_removed - r.date_added) * SecondsPerHour) \div SecondsPerHour

\* the rows "if roll.date_removed and roll.date_added": a datetime is truthy,
\* None is not
HasBothDates(r) == r.date_removed # NULL /\ r.date_added # NULL

\* CRUDRoll.get_stats, from its two query results
StatsOf(rolls_added, rolls_removed) ==
    LET added_count == Len(rolls_added)
        removed_count == Len(rolls_removed)
        some == added_count > 0
        ls == LengthsOf(rolls_added)
        ws == WeightsOf(rolls_added)
        both == SelectSeq(rolls_removed, HasBothDates)
        gaps == [i \in DOMAIN both |-> GapHours(both[i])]
    IN  [added_count |-> added_count,
         removed_count |-> removed_count,
         avg_length |-> IF some THEN Quot(SumSeq(ls), added_count) ELSE Quot(0, 1),
         avg_weight |-> IF some THEN Quot(SumSeq(ws), added_count) ELSE Quot(0, 1),
         min_length |-> IF some THEN MinSeq(ls) ELSE 0,
         max_length |-> IF some THEN MaxSeq(ls) ELSE 0,
         min_weight |-> IF some THEN MinSeq(ws) ELSE 0,
         max_weight |-> IF some THEN MaxSeq(ws) ELSE 0,
         total_weight |-> SumSeq(ws),
         min_gap |-> IF gaps # <<>> THEN MinSeq(gaps) ELSE 0,
         max_gap |-> IF gaps # <<>> THEN MaxSeq(gaps) ELSE 0]

\* the query Roll.date_added.between(start_date, end_date)
AddedIn(s, start_date, end_date) ==
    LET Keep(r) == Between(r.date_added, start_date, end_date) IN SelectSeq(s, Keep)

\* RemovedIn run on the rolls added in the window instead of on the table
RemovedAmongAdded(s, start_date, end_date) ==
    LET Keep(r) == /\ r.date_added # NULL /\ r.date_removed # NULL
                   /\ start_date <= r.date_added /\ r.date_added <= end_date
                   /\ start_date <= r.date_removed /\ r.date_removed <= end_date
    IN  SelectSeq(s, Keep)

\* the query Roll.date_removed.between(start_date, end_date)
RemovedIn(s, start_date, end_date) ==
    LET Keep(r) == Between(r.date_removed, start_date, end_date) IN SelectSeq(s, Keep)

get_stats(s, start_date, end_date) ==
    StatsOf(AddedIn(s, start_date, end_date), RemovedIn(s, start_date, end_date))

----------------------------------------------------------------------------
(* Requests *)

\* nothing queried yet
NoStats == StatsOf(<<>>, <<>>)

NoOut ==
    [op |-> "none", filter |-> NoFilter, start_date |-> NULL, end_date |-> NULL,
     rows |-> <<>>, stats |-> NoStats, exc |-> NoExc, status |-> 0]

Init ==
    /\ store = <<>>
    /\ clock = 0
    /\ pc = [p \in Procs |-> "idle"]
    /\ op = [p \in Procs |-> "none"]
    /\ arg = [p \in Procs |-> NoArg]
    /\ obj = [p \in Procs |-> NoObj]
    /\ exc = [p \in Procs |-> NoExc]
    /\ status = [p \in Procs |-> 0]
    /\ open = [p \in Procs |-> 0]
    /\ out = NoOut

\* datetime.now(): time passes between any two steps
Tick ==
    /\ clock < MaxClock
    /\ clock' = clock + 1
    /\ UNCHANGED <<store, pc, op, arg, obj, exc, status, open, out>>

\* create_roll calls that have not inserted their row yet
PendingCreates == {q \in Procs : op[q] = "create" /\ pc[q] = "body"}

\* A request arrives: its get_db dependency opens a session
\* (db = SessionLocal()), the handler calls the repository method, and the
\* method opens its own (db_session = self.session_maker()) and enters its
\* try block.
Receive(p, o, a) ==
    /\ pc[p] = "idle"
    /\ pc' = [pc EXCEPT ![p] = "body"]
    /\ op' = [op EXCEPT ![p] = o]
    /\ arg' = [arg EXCEPT ![p] = a]
    /\ open' = [open EXCEPT ![p] = @ + 2]
    /\ UNCHANGED <<store, clock, obj, exc, status, out>>

\* POST /rolls/ with a valid body
ReceiveCreate(p) ==
    /\ Len(store) + Cardinality(PendingCreates) < MaxRolls
    /\ \E b \in RollInputs :
          Receive(p, "create", [id |-> 0, length |-> b.length, weight |-> b.weight])

\* DELETE /rolls/{roll_id}
ReceiveDelete(p) ==
    \E i \in Ids : Receive(p, "delete", [id |-> i, length |-> 0, weight |-> 0])

\* GET /rolls/{roll_id}
ReceiveGet(p) ==
    \E i \in Ids : Receive(p, "get", [id |-> i, length |-> 0, weight |-> 0])

\* GET /rolls/
ReceiveList(p) == Receive(p, "list", NoArg)

\* GET /rolls/stats/
ReceiveStats(p) == Receive(p, "stats", NoArg)

\* A database statement (a query, a commit, a refresh) raises: nothing is
\* written, and control passes to the finally block.
StoreFails(p) ==
    /\ pc[p] \in {"body", "refresh", "commit", "body2"}
    /\ exc' = [exc EXCEPT ![p] = StoreError]
    /\ pc' = [pc EXCEPT ![p] = "finally"]
    /\ UNCHANGED <<store, clock, op, arg, obj, status, open, out>>

\* create_roll: add + commit.  The INSERT takes the next id and the column
\* default date_added = datetime.now(); the commit expires db_roll.
CreateCommit(p) ==
    /\ pc[p] = "body" /\ op[p] = "create"
    /\ LET row == Roll(Len(store) + 1, arg[p].length, arg[p].weight, clock, NULL)
       IN  /\ store' = Append(store, row)
           /\ obj' = [obj EXCEPT ![p] = Instance(row, FALSE)]
    /\ pc' = [pc EXCEPT ![p] = "refresh"]
    /\ UNCHANGED <<clock, op, arg, exc, status, open, out>>

\* create_roll: db_session.refresh(db_roll) loads the row again
CreateRefresh(p) ==
    /\ pc[p] = "refresh"
    /\ obj' = [obj EXCEPT ![p] = Instance(store[obj[p].roll.id], TRUE)]
    /\ pc' = [pc EXCEPT ![p] = "finally"]
    /\ UNCHANGED <<store, clock, op, arg, exc, status, open, out>>

\* query(Roll).filter(Roll.id == roll_id).first()
FirstById(s, i) == IF i \in DOMAIN s THEN Instance(s[i], TRUE) ELSE NoObj

\* delete_roll: the query that loads db_roll
DeleteQuery(p) ==
    /\ pc[p] = "body" /\ op[p] = "delete"
    /\ obj' = [obj EXCEPT ![p] = FirstById(store, arg[p].id)]
    /\ pc' = [pc EXCEPT ![p] = "check"]
    /\ UNCHANGED <<store, clock, op, arg, exc, status, open, out>>

\* DeleteCheck without the "already removed" test
DeleteCheckNoRemovedTest(p) ==
    /\ pc[p] = "check"
    /\ IF obj[p] = NoObj
       THEN /\ exc' = [exc EXCEPT ![p] = NotFound]
            /\ pc' = [pc EXCEPT ![p] = "finally"]
            /\ obj' = obj
       ELSE /\ obj' = [obj EXCEPT ![p].roll.date_removed = clock]
            /\ pc' = [pc EXCEPT ![p] = "commit"]
            /\ exc' = exc
    /\ UNCHANGED <<store, clock, op, arg, status, open, out>>

\* DeleteCheck stamping a time read once when the module was loaded
\* (datetime.now() evaluated at import) instead of the current time
DeleteCheckImportTime(p) ==
    /\ pc[p] = "check"
    /\ IF obj[p] = NoObj
       THEN /\ exc' = [exc EXCEPT ![p] = NotFound]
            /\ pc' = [pc EXCEPT ![p] = "finally"]
            /\ obj' = obj
       ELSE IF obj[p].roll.date_removed # NULL
       THEN /\ exc' = [exc EXCEPT ![p] = AlreadyRemoved]
            /\ pc' = [pc EXCEPT ![p] = "finally"]
            /\ obj' = obj
       ELSE /\ obj' = [obj EXCEPT ![p].roll.date_removed = 0]
            /\ pc' = [pc EXCEPT ![p] = "commit"]
            /\ exc' = exc
    /\ UNCHANGED <<store, clock, op, arg, status, open, out>>

\* delete_roll: the two checks on the loaded instance, then
\* db_roll.date_removed = datetime.now()
DeleteCheck(p) ==
    /\ pc[p] = "check"
    /\ IF obj[p] = NoObj
       THEN /\ exc' = [exc EXCEPT ![p] = NotFound]
            /\ pc' = [pc EXCEPT ![p] = "finally"]
            /\ obj' = obj
       ELSE IF obj[p].roll.date_removed # NULL
       THEN /\ exc' = [exc EXCEPT ![p] = AlreadyRemoved]
            /\ pc' = [pc EXCEPT ![p] = "finally"]
            /\ obj' = obj
       ELSE /\ obj' = [obj EXCEPT ![p].roll.date_removed = clock]
            /\ pc' = [pc EXCEPT ![p] = "commit"]
            /\ exc' = exc
    /\ UNCHANGED <<store, clock, op, arg, status, open, out>>

\* delete_roll: db_session.commit() writes the changed column of the row
\* (UPDATE rolls SET date_removed = ? WHERE id = ?) and expires db_roll;
\* return db_roll follows.
DeleteCommit(p) ==
    /\ pc[p] = "commit"
    /\ store' = [store EXCEPT ![arg[p].id].date_removed = obj[p].roll.date_removed]
    /\ obj' = [obj EXCEPT ![p].loaded = FALSE]
    /\ pc' = [pc EXCEPT ![p] = "finally"]
    /\ UNCHANGED <<clock, op, arg, exc, status, open, out>>

\* get_roll: the query and the check on its result
GetQuery(p) ==
    /\ pc[p] = "body" /\ op[p] = "get"
    /\ obj' = [obj EXCEPT ![p] = FirstById(store, arg[p].id)]
    /\ exc' = [exc EXCEPT ![p] =
                 IF FirstById(store, arg[p].id) = NoObj THEN NotFound ELSE NoExc]
    /\ pc' = [pc EXCEPT ![p] = "finally"]
    /\ UNCHANGED <<store, clock, op, arg, status, open, out>>

\* get_rolls: query.all(); the rows go to the caller and change no state
\* (SpecList is about which rows they are)
ListQuery(p) ==
    /\ pc[p] = "body" /\ op[p] = "list"
    /\ pc' = [pc EXCEPT ![p] = "finally"]
    /\ UNCHANGED <<store, clock, op, arg, obj, exc, status, open, out>>

\* get_stats: the first query (rolls_added)
StatsQueryAdded(p) ==
    /\ pc[p] = "body" /\ op[p] = "stats"
    /\ pc' = [pc EXCEPT ![p] = "body2"]
    /\ UNCHANGED <<store, clock, op, arg, obj, exc, status, open, out>>

\* get_stats: the second query (rolls_removed) and the aggregation
StatsQueryRemoved(p) ==
    /\ pc[p] = "body2"
    /\ pc' = [pc EXCEPT ![p] = "finally"]
    /\ UNCHANGED <<store, clock, op, arg, obj, exc, status, open, out>>

\* The value a repository method returned is an ORM instance (not a list of
\* loaded rows, not a RollStats).
ReturnsInstance(o) == o \in {"create", "delete", "get"}

\* What the endpoint answers.  "except Exception" catches whatever the
\* repository raised, HTTPException included, and raises
\* HTTPException(status_code=500).  A returned value is serialized through
\* response_model, which reads the instance's attributes: an expired instance
\* of a closed session raises DetachedInstanceError, an unhandled error (500).
HandlerStatus(e, o, inst) ==
    IF e # NoExc THEN 500
    ELSE IF ReturnsInstance(o) /\ ~inst.loaded THEN 500
    ELSE 200

\* the exception the request ends with: the repository's, or the serializer's
RaisedBy(e, o, inst) ==
    IF e = NoExc /\ ReturnsInstance(o) /\ ~inst.loaded THEN DetachedInstance ELSE e

\* CloseSession as a close() after the body instead of in a finally block: a
\* call that raises skips it
CloseUnlessRaised(p) ==
    open' = [open EXCEPT ![p] = IF exc[p] = NoExc THEN @ - 1 ELSE @]

\* finally: db_session.close(), on the way out of a repository method,
\* whether it returns or raises
CloseSession(p) == open' = [open EXCEPT ![p] = @ - 1]

\* The repository method ends: its finally block closes its session, and the
\* endpoint handler's try/except and the response follow.
Return(p) ==
    /\ pc[p] = "finally"
    /\ CloseSession(p)
    /\ status' = [status EXCEPT ![p] = HandlerStatus(exc[p], op[p], obj[p])]
    /\ exc' = [exc EXCEPT ![p] = RaisedBy(exc[p], op[p], obj[p])]
    /\ pc' = [pc EXCEPT ![p] = "teardown"]
    /\ UNCHANGED <<store, clock, op, arg, obj, out>>

\* get_db after its yield: finally db.close().  The request is over and its
\* locals are gone.
Teardown(p) ==
    /\ pc[p] = "teardown"
    /\ open' = [open EXCEPT ![p] = @ - 1]
    /\ pc' = [pc EXCEPT ![p] = "idle"]
    /\ op' = [op EXCEPT ![p] = "none"]
    /\ arg' = [arg EXCEPT ![p] = NoArg]
    /\ obj' = [obj EXCEPT ![p] = NoObj]
    /\ exc' = [exc EXCEPT ![p] = NoExc]
    /\ status' = [status EXCEPT ![p] = 0]
    /\ UNCHANGED <<store, clock, out>>

Step(p) ==
    \/ ReceiveCreate(p)
    \/ ReceiveDelete(p)
    \/ ReceiveGet(p)
    \/ ReceiveList(p)
    \/ ReceiveStats(p)
    \/ StoreFails(p)
    \/ CreateCommit(p)
    \/ CreateRefresh(p)
    \/ DeleteQuery(p)
    \/ DeleteCheck(p)
    \/ DeleteCommit(p)
    \/ GetQuery(p)
    \/ ListQuery(p)
    \/ StatsQueryAdded(p)
    \/ StatsQueryRemoved(p)
    \/ Return(p)
    \/ Teardown(p)

Next == Tick \/ \E p \in Procs : Step(p)

Spec == Init /\ [][Next]_vars

\* One request at a time: a request is received only when no other is being served.
Alone(p) == \A q \in Procs \ {p} : pc[q] = "idle"

NextSeq == Tick \/ \E p \in Procs : Alone(p) /\ Step(p)

SpecSeq == Init /\ [][NextSeq]_vars

----------------------------------------------------------------------------
(* The read-only queries on a given table *)

\* the rows a table can hold: date_removed is NULL or was stamped after the insert
Rows(i) ==
    {Roll(i, l, w, a, r) : l \in Lengths, w \in Weights, a \in Times, r \in Times \cup {NULL}}

RowOk(r) == r.date_removed = NULL \/ r.date_removed >= r.date_added

Tables ==
    UNION {{s \in [1..n -> UNION {Rows(i) : i \in 1..n}] :
              \A i \in 1..n : s[i].id = i /\ RowOk(s[i])} : n \in 0..MaxRolls}

\* the values a length or weight bound is given
SizeBounds == Lengths \cup {NULL}

\* the values a date bound is given
DateBounds == Times \cup {NULL}

Filters ==
    [length_min : SizeBounds, length_max : SizeBounds,
     weight_min : SizeBounds, weight_max : SizeBounds,
     date_added_min : DateBounds, date_added_max : DateBounds,
     date_removed_min : DateBounds, date_removed_max : DateBounds]

InitQuery ==
    /\ store \in Tables
    /\ clock = MaxClock
    /\ pc = [p \in Procs |-> "idle"]
    /\ op = [p \in Procs |-> "none"]
    /\ arg = [p \in Procs |-> NoArg]
    /\ obj = [p \in Procs |-> NoObj]
    /\ exc = [p \in Procs |-> NoExc]
    /\ status = [p \in Procs |-> 0]
    /\ open = [p \in Procs |-> 0]
    /\ out = NoOut

\* GET /rolls/ with filter f: get_rolls returns its rows and the handler answers
QueryRolls ==
    /\ out = NoOut
    /\ \E f \in Filters :
          out' = [NoOut EXCEPT !.op = "list", !.filter = f,
                               !.rows = get_rolls(store, f),
                               !.status = HandlerStatus(NoExc, "list", NoObj)]
    /\ UNCHANGED <<store, clock, pc, op, arg, obj, exc, status, open>>

\* GET /rolls/stats/ with the two dates: get_stats returns a RollStats and
\* the handler answers
QueryStats ==
    /\ out = NoOut
    /\ \E s \in Times, e \in Times :
          out' = [NoOut EXCEPT !.op = "stats", !.start_date = s, !.end_date = e,
                               !.stats = get_stats(store, s, e),
                               !.status = HandlerStatus(NoExc, "stats", NoObj)]
    /\ UNCHANGED <<store, clock, pc, op, arg, obj, exc, status, open>>

\* get_rolls on a given table
SpecList == InitQuery /\ [][QueryRolls]_vars

\* get_stats on a given table
SpecStats == InitQuery /\ [][QueryStats]_vars

----------------------------------------------------------------------------
(* Claims *)

\* delete_roll call p has just ended (returned or raised)
DeleteEnds(p) == op[p] = "delete" /\ pc[p] # "finally" /\ pc'[p] = "finally"

\* delete_roll call p has returned the roll (its caller has not resumed yet)
DeleteReturned(p) == op[p] = "delete" /\ pc[p] = "finally" /\ exc[p] = NoExc

\* row i of the table exists and is still in inventory
Active(i) == i \in DOMAIN store /\ store[i].date_removed = NULL

\* C1: for any roll id and any interleaving of concurrent delete(id) calls,
\* at most one of the calls succeeds (returns the roll).
C1_AtMostOneDeleteSucceeds ==
    \A p, q \in Procs :
        (p # q /\ DeleteReturned(p) /\ DeleteReturned(q)) => arg[p].id # arg[q].id

\* C2: the endpoints keep the status codes of the repository's domain
\* conditions: DELETE answers 404 for NotFound and 400 for AlreadyRemoved,
\* GET answers 404 for NotFound, and 500 is answered only for a failure that
\* is neither of them.
C2_DomainStatusKept ==
    \A p \in Procs :
        pc[p] = "teardown" =>
            /\ (op[p] \in {"delete", "get"} /\ exc[p] = NotFound => status[p] = 404)
            /\ (op[p] = "delete" /\ exc[p] = AlreadyRemoved => status[p] = 400)
            /\ (status[p] = 500 => exc[p] \notin {NoExc, NotFound, AlreadyRemoved})

\* C3: with one request at a time and the store answering, delete(id)
\* succeeds iff row id exists with date_removed NULL, and then sets
\* date_removed, changes nothing else and returns that row; it raises NotFound
\* when the row does not exist and AlreadyRemoved when date_removed is set;
\* a delete that fails leaves the table unchanged.
C3_DeleteOutcome ==
    [][\A p \in Procs :
          DeleteEnds(p) =>
              LET i == arg[p].id IN
              /\ exc'[p] # NoExc => store' = store
              /\ exc'[p] # StoreError =>
                    /\ exc'[p] = NoExc <=> Active(i)
                    /\ exc'[p] = NotFound <=> i \notin DOMAIN store
                    /\ exc'[p] = AlreadyRemoved <=>
                          (i \in DOMAIN store /\ store[i].date_removed # NULL)
              /\ exc'[p] = NoExc =>
                    /\ store'[i].date_removed # NULL
                    /\ store' = [store EXCEPT ![i].date_removed = store'[i].date_removed]
                    /\ obj'[p].roll = store'[i]]_vars

\* C3 witness: roll 1 was added and removed at time 0, and a second delete
\* of it, by request r1, has raised AlreadyRemoved
C3_SecondDeleteRefused ==
    /\ store = <<Roll(1, 1, 2, 0, 0)>> /\ clock = 0
    /\ op["r1"] = "delete" /\ arg["r1"].id = 1
    /\ pc["r1"] = "finally" /\ exc["r1"] = AlreadyRemoved
    /\ pc["r2"] = "idle"

\* C4: once a row's date_removed is set, no step of any operation clears or
\* changes it.
C4_RemovedOnce ==
    [][\A i \in DOMAIN store :
          store[i].date_removed # NULL =>
              store'[i].date_removed = store[i].date_removed]_vars

AllZero(st) ==
    /\ st.added_count = 0 /\ st.removed_count = 0
    /\ st.avg_length.num = 0 /\ st.avg_weight.num = 0
    /\ st.min_length = 0 /\ st.max_length = 0
    /\ st.min_weight = 0 /\ st.max_weight = 0
    /\ st.total_weight = 0
    /\ st.min_gap = 0 /\ st.max_gap = 0

C6_DeleteAnswers200 ==
    \A p \in Procs :
        (pc[p] = "teardown" /\ op[p] = "delete"
            /\ exc[p] \notin {NotFound, AlreadyRemoved, StoreError}) =>
            (status[p] = 200 /\ obj[p].roll.date_removed # NULL)

\* a present bound b is satisfied by the non-NULL field x: x >= b for a min
MinOk(b, x) == b = NULL \/ (x # NULL /\ ~(x < b))

\* x <= b for a max
MaxOk(b, x) == b = NULL \/ (x # NULL /\ ~(x > b))

Matches(r, f) ==
    /\ MinOk(f.length_min, r.length) /\ MaxOk(f.length_max, r.length)
    /\ MinOk(f.weight_min, r.weight) /\ MaxOk(f.weight_max, r.weight)
    /\ MinOk(f.date_added_min, r.date_added) /\ MaxOk(f.date_added_max, r.date_added)
    /\ MinOk(f.date_removed_min, r.date_removed)
    /\ MaxOk(f.date_removed_max, r.date_removed)

\* C7: get_rolls returns exactly the rows that satisfy every present bound
\* (>= for a min, <= for a max, a NULL date_removed satisfying none), each
\* once; with no bound it returns every row; it raises nothing when no row
\* matches.
C7_ListReturnsMatching ==
    out.op = "list" =>
        /\ out.exc = NoExc /\ out.status = 200
        /\ {out.rows[k] : k \in DOMAIN out.rows}
              = {store[i] : i \in {j \in DOMAIN store : Matches(store[j], out.filter)}}
        /\ \A k, m \in DOMAIN out.rows : out.rows[k] = out.rows[m] => k = m
        /\ (out.filter = NoFilter => out.rows = store)

\* C7 witness: all eight bounds given, and of two rows the one that meets
\* them (each at its bound) is returned, the active roll is not
C7_AllBoundsOneRow ==
    /\ store = <<Roll(1, 1, 2, 0, 1), Roll(2, 2, 1, 1, NULL)>>
    /\ out.op = "list"
    /\ out.filter = [length_min |-> 1, length_max |-> 1,
                     weight_min |-> 2, weight_max |-> 2,
                     date_added_min |-> 0, date_added_max |-> 0,
                     date_removed_min |-> 1, date_removed_max |-> 1]
    /\ out.rows = <<store[1]>>

\* the rows whose date d lies in the window
InWindow(d, lo, hi) == d # NULL /\ ~(d < lo) /\ ~(d > hi)

\* C8: when no roll has date_added in the window, get_stats returns
\* added_count 0 and 0 for the six length/weight values and total_weight;
\* removed_count is the number of rolls with date_removed in the window;
\* min_gap and max_gap are 0 when that number is 0.
C8_EmptyAddedStats ==
    (out.op = "stats"
        /\ \A i \in DOMAIN store :
              ~InWindow(store[i].date_added, out.start_date, out.end_date)) =>
        LET st == out.stats
            removed == {i \in DOMAIN store :
                          InWindow(store[i].date_removed, out.start_date, out.end_date)}
        IN  /\ st.added_count = 0
            /\ st.avg_length.num = 0 /\ st.avg_weight.num = 0
            /\ st.min_length = 0 /\ st.max_length = 0
            /\ st.min_weight = 0 /\ st.max_weight = 0
            /\ st.total_weight = 0
            /\ st.removed_count = Cardinality(removed)
            /\ (removed = {} => st.min_gap = 0 /\ st.max_gap = 0)

\* C8 witness: the window [1, 1] on a table of two rolls added at time 0,
\* one of them removed at time 1
C8_RemovedOnlyWindow ==
    /\ store = <<Roll(1, 1, 2, 0, 1), Roll(2, 2, 1, 0, NULL)>>
    /\ out.op = "stats" /\ out.start_date = 1 /\ out.end_date = 1
    /\ out.stats.added_count = 0 /\ out.stats.removed_count = 1

\* C9: every row whose date_removed is set has date_removed >= date_added.
C9_RemovedAfterAdded ==
    \A i \in DOMAIN store :
        store[i].date_removed # NULL => store[i].date_removed >= store[i].date_added

\* C9 witness: roll 1, added at time 0, was removed at time 1 by request r1
C9_RemovedLater ==
    /\ store = <<Roll(1, 1, 2, 0, 1)>> /\ clock = 1
    /\ op["r1"] = "delete" /\ pc["r1"] = "finally" /\ exc["r1"] = NoExc
    /\ pc["r2"] = "idle"

\* C10: a repository call holds its session only while it runs, and a
\* request holds its get_db session only until its teardown: whichever way
\* the call ends, a request that is over holds no session.
C10_SessionsReleased ==
    \A p \in Procs :
        /\ pc[p] = "idle" => open[p] = 0
        /\ pc[p] = "teardown" => open[p] = 1
        /\ pc[p] \notin {"idle", "teardown"} => open[p] = 2

\* C10 witness: request r1's delete_roll raised NotFound on the empty table
\* and has closed its session; get_db's is still open
C10_ClosedAfterRaise ==
    /\ store = <<>> /\ clock = 0
    /\ op["r1"] = "delete" /\ arg["r1"].id = 1
    /\ pc["r1"] = "teardown" /\ exc["r1"] = NotFound /\ open["r1"] = 1
    /\ pc["r2"] = "idle"

====
